---- MODULE Spec2Model ----
(***************************************************************************)
(* The choyxona order bot: payload validation (schemas.py), the order      *)
(* calculator and the handlers (bot.py), the menu (menu.py) and the        *)
(* SQLite-backed order store (storage.py).                                 *)
(*                                                                         *)
(* Money is Python's Decimal in the handlers and a C double on the way     *)
(* into SQLite (storage.py calls float() on every amount).  An amount is   *)
(* kept here as two limbs, value = hi * Base + lo with 0 <= lo < Base, so  *)
(* that amounts around 2^53, where a double stops being exact, can be      *)
(* written down.  A payload integer may be negative: hi < 0.               *)
(***************************************************************************)
EXTENDS Integers, Sequences, FiniteSets, TLC

VARIABLES
    db,          \* the committed content of the SQLite file
    conn,        \* the connection record_order holds open (its transaction)
    pc,          \* "idle", "items" while record_order inserts item rows, or
                 \* "done" when the handler has returned
    local,       \* handle_web_app's local variables while record_order runs
    update,      \* the update handle_web_app is handling
    reply,       \* handle_web_app's reply_text to it
    report,      \* the summary command's reply_text
    tz,          \* the host's offset of local time from UTC, in seconds
    returned,    \* the orders record_order has returned, oldest first
    calls        \* the record_order calls of concurrent callers, each with
                 \* the connection it opened

vars == <<db, conn, pc, local, update, reply, report, tz, returned, calls>>

----------------------------------------------------------------------------
(* Bounds of the model *)

MaxItems == 2        \* items in one submission
MaxOrders == 2       \* orders in the store
MaxDay == 1          \* calendar days 0..MaxDay
MaxCallers == 3      \* callers of record_order at the same time

----------------------------------------------------------------------------
(* Decimal amounts *)

Base == 1073741824          \* 2^30, the limb
TwoTo23 == 8388608          \* hi of 2^53 = 2^23 * 2^30

None == "None"    \* a missing username
NoId == 0         \* StoredOrder.id before the store assigns one
NoDay == 0 - 1    \* list_orders() without a day

Dec(n) == [hi |-> 0, lo |-> n]

Zero == Dec(0)

Norm(h, l) == [hi |-> h + (l \div Base), lo |-> l % Base]

DAdd(a, b) == Norm(a.hi + b.hi, a.lo + b.lo)

DSub(a, b) == Norm(a.hi - b.hi - 1, a.lo + Base - b.lo)

DLe(a, b) == a.hi < b.hi \/ (a.hi = b.hi /\ a.lo <= b.lo)

DLt(a, b) == DLe(a, b) /\ a # b

DMax(a, b) == IF DLe(a, b) THEN b ELSE a

RECURSIVE DMul(_, _)
DMul(a, q) == IF q = 0 THEN Zero ELSE DAdd(a, DMul(a, q - 1))

(* float(d) for 0 <= d < 2^55: the nearest double, ties to the even mantissa *)
Ulp(a) == IF a.hi < TwoTo23 THEN 1 ELSE IF a.hi < 2 * TwoTo23 THEN 2 ELSE 4

FloatOf(a) ==
    LET u == Ulp(a)
        r == a.lo % u
        down == a.lo - r
        even == (down \div u) % 2 = 0
    IN  IF 2 * r < u \/ (2 * r = u /\ even)
        THEN Norm(a.hi, down)
        ELSE Norm(a.hi, down + u)

(* Decimal(str(x)) of a NUMERIC cell: the cell's value, exactly *)
DecimalOfCell(x) == x

----------------------------------------------------------------------------
(* menu.py *)

MENU == <<
    [id |-> "tea_green",  name |-> "Ko'k choy",           price |-> Dec(5000)],
    [id |-> "tea_black",  name |-> "Qora choy",           price |-> Dec(4000)],
    [id |-> "lepyoshka",  name |-> "Non",                 price |-> Dec(3000)],
    [id |-> "somsa_lamb", name |-> "Qo'y go'shtli somsa", price |-> Dec(12000)],
    [id |-> "somsa_beef", name |-> "Mol go'shtli somsa",  price |-> Dec(11000)],
    [id |-> "plov",       name |-> "Palov",               price |-> Dec(28000)],
    [id |-> "lagman",     name |-> "Lag'mon",             price |-> Dec(26000)],
    [id |-> "shashlik",   name |-> "Kabob",               price |-> Dec(18000)],
    [id |-> "salad",      name |-> "Achchiq-chuchuk",     price |-> Dec(9000)],
    [id |-> "ayran",      name |-> "Ayran",               price |-> Dec(7000)] >>

MenuIds == {MENU[i].id : i \in 1..Len(MENU)}

(* MENU_BY_ID[id], for an id of the menu *)
MENU_BY_ID(id) == MENU[CHOOSE i \in 1..Len(MENU) : MENU[i].id = id]

----------------------------------------------------------------------------
(* schemas.py *)

(* OrderItemRequest: quantity has ge=1 *)
ValidItemRequest(it) == it.quantity >= 1

(* OrderRequest without the ensure_items_present validator *)
ValidOrderRequest_any_items(p) ==
    /\ \A i \in 1..Len(p.items) : ValidItemRequest(p.items[i])
    /\ p.discount.hi >= 0
    /\ p.paid.hi >= 0

(* OrderRequest: discount and paid have ge=0; ensure_items_present *)
ValidOrderRequest(p) ==
    /\ \A i \in 1..Len(p.items) : ValidItemRequest(p.items[i])
    /\ p.discount.hi >= 0
    /\ p.paid.hi >= 0
    /\ p.items # <<>>

(* parse_order_payload: the OrderRequest, or ValueError.  raw.json tells *)
(* whether the text is JSON of the OrderRequest shape at all *)
parse_order_payload(raw) ==
    IF ~raw.json \/ ~ValidOrderRequest(raw)
    THEN [ok |-> FALSE]
    ELSE [ok |-> TRUE,
          order |-> [customer |-> raw.customer, items |-> raw.items,
                     discount |-> raw.discount, paid |-> raw.paid]]

----------------------------------------------------------------------------
(* bot.py: the calculator *)

StoredOrderItem(menu_item, quantity) ==
    [menu_id |-> menu_item.id, name |-> menu_item.name, quantity |-> quantity,
     unit_price |-> menu_item.price, subtotal |-> DMul(menu_item.price, quantity)]

(* build_items with "total += menu_item.price" for "total += subtotal" *)
RECURSIVE build_from_price_total(_, _, _, _)
build_from_price_total(reqs, i, items, total) ==
    IF i > Len(reqs)
    THEN [ok |-> TRUE, items |-> items, total |-> total]
    ELSE IF reqs[i].id \notin MenuIds
         THEN [ok |-> FALSE, error |-> reqs[i].id]
         ELSE LET item == StoredOrderItem(MENU_BY_ID(reqs[i].id), reqs[i].quantity)
              IN  build_from_price_total(reqs, i + 1, Append(items, item),
                                         DAdd(total, item.unit_price))

(* build_items with "continue" for the raise on an unknown id *)
RECURSIVE build_from_skip_unknown(_, _, _, _)
build_from_skip_unknown(reqs, i, items, total) ==
    IF i > Len(reqs)
    THEN [ok |-> TRUE, items |-> items, total |-> total]
    ELSE IF reqs[i].id \notin MenuIds
         THEN build_from_skip_unknown(reqs, i + 1, items, total)
         ELSE LET item == StoredOrderItem(MENU_BY_ID(reqs[i].id), reqs[i].quantity)
              IN  build_from_skip_unknown(reqs, i + 1, Append(items, item),
                                          DAdd(total, item.subtotal))

(* build_items: the loop from item i on, with the items and total so far *)
RECURSIVE build_from(_, _, _, _)
build_from(reqs, i, items, total) ==
    IF i > Len(reqs)
    THEN [ok |-> TRUE, items |-> items, total |-> total]
    ELSE IF reqs[i].id \notin MenuIds
         THEN [ok |-> FALSE, error |-> reqs[i].id]
         ELSE LET item == StoredOrderItem(MENU_BY_ID(reqs[i].id), reqs[i].quantity)
              IN  build_from(reqs, i + 1, Append(items, item),
                             DAdd(total, item.subtotal))

build_items(order) == build_from(order.items, 1, <<>>, Zero)

(* customer.strip() on a customer given as a sequence of characters *)
RECURSIVE LStrip(_)
LStrip(s) == IF s # <<>> /\ Head(s) = " " THEN LStrip(Tail(s)) ELSE s

RECURSIVE RStrip(_)
RStrip(s) ==
    IF s # <<>> /\ s[Len(s)] = " " THEN RStrip(SubSeq(s, 1, Len(s) - 1)) ELSE s

Strip(s) == RStrip(LStrip(s))

(* handle_web_app, lines 86-105: the amounts and the StoredOrder *)
(* handle_web_app without "if discount > total: discount = total" *)
ClampDiscount_none(discount, total) == discount

ClampDiscount(discount, total) == IF DLt(total, discount) THEN total ELSE discount

ChangeOf(paid, net_total) == DMax(DSub(paid, net_total), Zero)

BalanceOf(paid, net_total) == DMax(DSub(net_total, paid), Zero)

Compute(u, order, built, utcnow) ==
    LET total == built.total
        discount == ClampDiscount(order.discount, total)
        net_total == DSub(total, discount)
        paid == order.paid
        change == ChangeOf(paid, net_total)
        balance == BalanceOf(paid, net_total)
    IN  [gross |-> total,
         stored_order |->
            [id |-> NoId, chat_id |-> u.chat_id, username |-> u.username,
             customer |-> Strip(order.customer), discount |-> discount,
             paid |-> paid, total |-> net_total, change |-> change,
             balance |-> balance, created_at |-> utcnow, items |-> built.items]]

----------------------------------------------------------------------------
(* Dates and times: a datetime is [day, sec, us], naive *)

LastSecond == 86399
LastMicro == 999999
SecondsPerDay == 86400

(* datetime.isoformat(): the text, as its fixed-width fields; the fraction *)
(* is left out when the microsecond is 0 *)
IsoFormat(dt) ==
    IF dt.us = 0 THEN <<dt.day, dt.sec>> ELSE <<dt.day, dt.sec, dt.us>>

(* datetime.fromisoformat() *)
FromIsoFormat(t) ==
    [day |-> t[1], sec |-> t[2], us |-> IF Len(t) >= 3 THEN t[3] ELSE 0]

(* SQLite's comparison of two TEXT values: bytewise, a proper prefix first *)
RECURSIVE TextLe(_, _)
TextLe(a, b) ==
    IF a = <<>> THEN TRUE
    ELSE IF b = <<>> THEN FALSE
    ELSE IF Head(a) # Head(b) THEN Head(a) < Head(b)
    ELSE TextLe(Tail(a), Tail(b))

DayStart(day) == [day |-> day, sec |-> 0, us |-> 0]

(* The end of the day as 23:59:59, without datetime.max's microseconds *)
DayEnd_whole_second(day) == [day |-> day, sec |-> LastSecond, us |-> 0]

DayEnd(day) == [day |-> day, sec |-> LastSecond, us |-> LastMicro]

(* date.today(): the date of the local clock *)
Today(utcnow, offset) == utcnow.day + ((utcnow.sec + offset) \div SecondsPerDay)

----------------------------------------------------------------------------
(* storage.py: the tables.  A database is [orders, order_items,            *)
(* sqlite_sequence]; the tables are kept in rowid order.                   *)

EmptyDb ==
    [orders |-> <<>>, order_items |-> <<>>,
     sqlite_sequence |-> [orders |-> 0, order_items |-> 0]]

(* INSERT INTO orders: AUTOINCREMENT id, amounts through float() *)
InsertOrder(d, order) ==
    LET id == d.sqlite_sequence.orders + 1
        row == [id |-> id, chat_id |-> order.chat_id, username |-> order.username,
                customer |-> order.customer,
                discount |-> FloatOf(order.discount),
                paid |-> FloatOf(order.paid),
                total |-> FloatOf(order.total),
                change |-> FloatOf(order.change),
                balance |-> FloatOf(order.balance),
                created_at |-> IsoFormat(order.created_at)]
    IN  [d EXCEPT !.orders = Append(@, row), !.sqlite_sequence.orders = id]

(* INSERT INTO order_items *)
InsertItem(d, order_id, item) ==
    LET id == d.sqlite_sequence.order_items + 1
        row == [id |-> id, order_id |-> order_id, menu_id |-> item.menu_id,
                name |-> item.name, quantity |-> item.quantity,
                unit_price |-> FloatOf(item.unit_price),
                subtotal |-> FloatOf(item.subtotal)]
    IN  [d EXCEPT !.order_items = Append(@, row), !.sqlite_sequence.order_items = id]

(* _fetch_order_items: the rows of one order, in rowid order *)
ItemOfRow(row) ==
    [menu_id |-> row.menu_id, name |-> row.name, quantity |-> row.quantity,
     unit_price |-> DecimalOfCell(row.unit_price),
     subtotal |-> DecimalOfCell(row.subtotal)]

RECURSIVE fetch_order_items(_, _)
fetch_order_items(rows, order_id) ==
    IF rows = <<>> THEN <<>>
    ELSE IF Head(rows).order_id = order_id
         THEN <<ItemOfRow(Head(rows))>> \o fetch_order_items(Tail(rows), order_id)
         ELSE fetch_order_items(Tail(rows), order_id)

(* WHERE created_at BETWEEN start AND end *)
InDay(row, day) ==
    \/ day = NoDay
    \/ /\ TextLe(IsoFormat(DayStart(day)), row.created_at)
       /\ TextLe(row.created_at, IsoFormat(DayEnd(day)))

RECURSIVE Where(_, _)
Where(rows, day) ==
    IF rows = <<>> THEN <<>>
    ELSE IF InDay(Head(rows), day)
         THEN <<Head(rows)>> \o Where(Tail(rows), day)
         ELSE Where(Tail(rows), day)

(* ORDER BY created_at ASC: rows of equal text stay in rowid order *)
RECURSIVE InsertSorted(_, _)
InsertSorted(sorted, row) ==
    IF sorted = <<>> THEN <<row>>
    ELSE IF TextLe(Head(sorted).created_at, row.created_at)
         THEN <<Head(sorted)>> \o InsertSorted(Tail(sorted), row)
         ELSE <<row>> \o sorted

RECURSIVE OrderBy(_)
OrderBy(rows) ==
    IF rows = <<>> THEN <<>>
    ELSE InsertSorted(OrderBy(SubSeq(rows, 1, Len(rows) - 1)), rows[Len(rows)])

OrderOfRow(d, row) ==
    [id |-> row.id, chat_id |-> row.chat_id, username |-> row.username,
     customer |-> row.customer,
     discount |-> DecimalOfCell(row.discount),
     paid |-> DecimalOfCell(row.paid),
     total |-> DecimalOfCell(row.total),
     change |-> DecimalOfCell(row.change),
     balance |-> DecimalOfCell(row.balance),
     created_at |-> FromIsoFormat(row.created_at),
     items |-> fetch_order_items(d.order_items, row.id)]

list_orders(d, day) ==
    LET rows == OrderBy(Where(d.orders, day))
    IN  [i \in 1..Len(rows) |-> OrderOfRow(d, rows[i])]

(* sum(..., Decimal(0)) over one field of the orders *)
RECURSIVE SumOf(_, _)
SumOf(orders, field) ==
    IF orders = <<>> THEN Zero
    ELSE DAdd(Head(orders)[field], SumOf(Tail(orders), field))

(* summarize with total_change summed over the balance field *)
summarize_change_from_balance(d, day) ==
    LET orders == list_orders(d, day)
    IN  [total_orders |-> Len(orders),
         total_amount |-> SumOf(orders, "total"),
         total_paid |-> SumOf(orders, "paid"),
         total_balance |-> SumOf(orders, "balance"),
         total_change |-> SumOf(orders, "balance")]

summarize(d, day) ==
    LET orders == list_orders(d, day)
    IN  [total_orders |-> Len(orders),
         total_amount |-> SumOf(orders, "total"),
         total_paid |-> SumOf(orders, "paid"),
         total_balance |-> SumOf(orders, "balance"),
         total_change |-> SumOf(orders, "change")]

----------------------------------------------------------------------------
(* The inputs *)

RECURSIVE SeqsUpTo(_, _)
SeqsUpTo(S, n) ==
    IF n = 0 THEN {<<>>}
    ELSE LET shorter == SeqsUpTo(S, n - 1)
         IN  shorter \cup {Append(q, x) : q \in {t \in shorter : Len(t) = n - 1}, x \in S}

BigPaid == [hi |-> TwoTo23, lo |-> 1]    \* 2^53 + 1
MinusOne == [hi |-> 0 - 1, lo |-> Base - 1]

(* Item requests: three of the menu, one unknown id, one with quantity 0 *)
ItemRequests ==
    {[id |-> "tea_green", quantity |-> 2], [id |-> "plov", quantity |-> 1],
     [id |-> "lagman", quantity |-> 3], [id |-> "qaymoq", quantity |-> 1],
     [id |-> "plov", quantity |-> 0]}

(* The items of the spec's scenarios *)
Scenario == <<[id |-> "tea_green", quantity |-> 2], [id |-> "plov", quantity |-> 1]>>

(* The updates whose web_app_data is JSON of the OrderRequest shape *)
JsonUpdates(itemSeqs, discounts, paids, customers) ==
    {[has_data |-> TRUE, chat_id |-> 7, username |-> "ali",
      data |-> [json |-> TRUE, customer |-> c, items |-> its,
                discount |-> d, paid |-> p]] :
        c \in customers, d \in discounts, p \in paids, its \in itemSeqs}

NoPayload == [json |-> FALSE, customer |-> <<>>, items |-> <<>>,
              discount |-> Zero, paid |-> Zero]

(* An update without web_app_data, and one whose data is not JSON; the    *)
(* first comes without an effective_user                                  *)
OtherUpdates ==
    {[has_data |-> FALSE, chat_id |-> 8, username |-> None, data |-> NoPayload],
     [has_data |-> TRUE, chat_id |-> 7, username |-> "ali", data |-> NoPayload]}

(* Every sequence of item requests with one payment, and the scenario's   *)
(* items with every discount and payment                                  *)
Updates ==
    JsonUpdates(SeqsUpTo(ItemRequests, MaxItems), {Zero}, {Dec(38000)},
                {<<" ", "a", " ">>})
    \cup JsonUpdates({Scenario}, {MinusOne, Zero, Dec(10000), Dec(50000)},
                     {MinusOne, Dec(10000), Dec(38000), BigPaid}, {<<>>})
    \cup OtherUpdates

(* The spec's scenario with a balance (paid 10000), and a one-item order  *)
(* with change                                                            *)
StoreUpdates ==
    JsonUpdates({Scenario}, {Zero}, {Dec(10000)}, {<<>>})
    \cup JsonUpdates({<<[id |-> "plov", quantity |-> 1]>>}, {Zero}, {Dec(40000)},
                     {<<>>})

Instants(days, seconds, micros) == [day : days, sec : seconds, us : micros]

Noon == [day |-> 0, sec |-> 43200, us |-> 0]

StoreInstants == Instants(0..MaxDay, {0, LastSecond}, {0, LastMicro})

SummaryInstants == Instants(0..MaxDay, {0, LastSecond}, {0})

Offsets == {0, 18000}    \* hosts at UTC and at UTC+5 (Asia/Tashkent)

----------------------------------------------------------------------------
(* The state machine *)

Closed == [open |-> FALSE]
NoLocal == [running |-> FALSE]
NoReply == [kind |-> "none"]
NoReport == [kind |-> "none"]
NoCall == [pc |-> "idle"]
Callers == 1..MaxCallers
NoUpdate == [has_data |-> FALSE, chat_id |-> 0, username |-> None, data |-> NoPayload]

InitAt(offsets) ==
    /\ db = EmptyDb
    /\ conn = Closed
    /\ pc = "idle"
    /\ local = NoLocal
    /\ update = NoUpdate
    /\ reply = NoReply
    /\ report = NoReport
    /\ tz \in offsets
    /\ returned = <<>>
    /\ calls = [c \in Callers |-> NoCall]

(* The text of build_items' ValueError *)
ErrorText(id) == <<"Menu item '", id, "' mavjud emas">>

(* A connection in autocommit mode: what was executed stays *)
CloseWithoutCommit_autocommit(d, c) == c.view

(* conn.close() without a commit: SQLite rolls the open transaction back *)
CloseWithoutCommit(d, c) == d

(* conn.commit(): the transaction's view becomes the database *)
CommitOf(d, c) == c.view

(* handle_web_app up to and including record_order's INSERT INTO orders; *)
(* utcnow is what datetime.utcnow() reads off the system clock           *)
handle_web_app(updates, instants) ==
    /\ pc = "idle"
    /\ Len(db.orders) < MaxOrders
    /\ \E u \in updates, utcnow \in instants :
        /\ update' = u
        /\ IF ~u.has_data
           THEN /\ reply' = NoReply
                /\ pc' = "done"
                /\ UNCHANGED <<db, conn, local>>
           ELSE LET parsed == parse_order_payload(u.data)
                IN  IF ~parsed.ok
                    THEN /\ reply' = [kind |-> "retry"]
                         /\ pc' = "done"
                         /\ UNCHANGED <<db, conn, local>>
                    ELSE LET built == build_items(parsed.order)
                         IN  IF ~built.ok
                             THEN /\ reply' = [kind |-> "error",
                                               text |-> ErrorText(built.error)]
                                  /\ pc' = "done"
                                  /\ UNCHANGED <<db, conn, local>>
                             ELSE LET l == Compute(u, parsed.order, built, utcnow)
                                      view == InsertOrder(db, l.stored_order)
                                  IN  /\ local' = [running |-> TRUE,
                                                   gross |-> l.gross,
                                                   stored_order |-> l.stored_order]
                                      /\ conn' = [open |-> TRUE, view |-> view,
                                                  order_id |-> view.sqlite_sequence.orders,
                                                  next |-> 1]
                                      /\ pc' = "items"
                                      /\ reply' = NoReply
                                      /\ UNCHANGED db
    /\ UNCHANGED <<report, tz, returned, calls>>

(* record_order: the next INSERT INTO order_items *)
insert_item ==
    /\ pc = "items"
    /\ conn.next <= Len(local.stored_order.items)
    /\ conn' = [conn EXCEPT
                  !.view = InsertItem(@, conn.order_id,
                                      local.stored_order.items[conn.next]),
                  !.next = @ + 1]
    /\ UNCHANGED <<db, pc, local, update, reply, report, tz, returned, calls>>

(* record_order: conn.commit(), the return, and handle_web_app's receipt *)
commit ==
    /\ pc = "items"
    /\ conn.next > Len(local.stored_order.items)
    /\ LET stored_order == [local.stored_order EXCEPT !.id = conn.order_id]
       IN  /\ db' = CommitOf(db, conn)
           /\ returned' = Append(returned, stored_order)
           /\ reply' = [kind |-> "receipt", gross |-> local.gross,
                        order |-> stored_order]
    /\ conn' = Closed
    /\ local' = NoLocal
    /\ pc' = "done"
    /\ UNCHANGED <<update, report, tz, calls>>

(* record_order: an execute or the commit raises; _connect's finally closes *)
(* the connection and the exception leaves handle_web_app without a reply  *)
storage_error ==
    /\ pc = "items"
    /\ db' = CloseWithoutCommit(db, conn)
    /\ conn' = Closed
    /\ local' = NoLocal
    /\ pc' = "done"
    /\ reply' = NoReply
    /\ UNCHANGED <<update, report, tz, returned, calls>>

(* summary: storage.summarize(date.today()); utcnow is the system clock *)
(* at the command, of which date.today() takes the local date            *)
summary(instants) ==
    /\ pc = "idle"
    /\ \E utcnow \in instants :
        LET today == Today(utcnow, tz)
        IN  report' = [kind |-> "report", day |-> today,
                       summary |-> summarize(db, today)]
    /\ pc' = "done"
    /\ UNCHANGED <<db, conn, local, update, reply, tz, returned, calls>>

(* The handler has returned: the application takes the next update *)
next_update ==
    /\ pc = "done"
    /\ pc' = "idle"
    /\ update' = NoUpdate
    /\ reply' = NoReply
    /\ report' = NoReport
    /\ UNCHANGED <<db, conn, local, tz, returned, calls>>

Init == InitAt({0})

Next ==
    \/ handle_web_app(Updates, {Noon})
    \/ insert_item
    \/ commit
    \/ storage_error
    \/ summary({Noon})
    \/ next_update

Spec == Init /\ [][Next]_vars

InitStore == InitAt(Offsets)

NextStore ==
    \/ handle_web_app(StoreUpdates, StoreInstants)
    \/ insert_item
    \/ commit
    \/ storage_error
    \/ summary(SummaryInstants)
    \/ next_update

SpecStore == InitStore /\ [][NextStore]_vars

----------------------------------------------------------------------------
(* Concurrent callers of record_order.  Each call opens its own           *)
(* connection; SQLite lets one connection at a time hold the write lock   *)
(* of the database file, from its first INSERT to its commit or close.    *)

(* The orders handle_web_app hands to record_order *)
OrdersOf(updates, instants) ==
    {Compute(u, parse_order_payload(u.data).order,
             build_items(parse_order_payload(u.data).order), t).stored_order :
        u \in updates, t \in instants}

(* The connections that hold an open write transaction *)
Writers == {c \in Callers : calls[c].pc = "items"}

(* A database file without locking: every connection may write *)
WriteLockFree_unlocked(c) == TRUE

(* No other connection holds the write lock *)
WriteLockFree(c) == Writers \subseteq {c}

(* record_order is called by the handler of chat c's submission: _connect *)
(* opens a connection of the call's own                                  *)
connect(orders) ==
    /\ Len(db.orders) < MaxOrders
    /\ \E c \in Callers, order \in orders :
        /\ calls[c].pc = "idle"
        /\ calls' = [calls EXCEPT ![c] =
                        [pc |-> "connected",
                         order |-> [order EXCEPT !.chat_id = c]]]
    /\ UNCHANGED <<db, conn, pc, local, update, reply, report, tz, returned>>

(* cursor.execute(INSERT INTO orders): the implicit BEGIN and the write  *)
(* lock; cursor.lastrowid is the id this connection has just inserted    *)
insert_order ==
    /\ Len(db.orders) < MaxOrders
    /\ \E c \in Callers :
        /\ calls[c].pc = "connected"
        /\ WriteLockFree(c)
        /\ LET view == InsertOrder(db, calls[c].order)
           IN  calls' = [calls EXCEPT ![c] =
                           [pc |-> "items", order |-> calls[c].order,
                            view |-> view,
                            order_id |-> view.sqlite_sequence.orders,
                            next |-> 1]]
    /\ UNCHANGED <<db, conn, pc, local, update, reply, report, tz, returned>>

(* cursor.execute(INSERT INTO orders) while another connection holds the *)
(* write lock: after the busy timeout it raises "database is locked" and *)
(* _connect's finally closes the connection                              *)
database_is_locked ==
    /\ \E c \in Callers :
        /\ calls[c].pc = "connected"
        /\ ~WriteLockFree(c)
        /\ calls' = [calls EXCEPT ![c] = NoCall]
    /\ UNCHANGED <<db, conn, pc, local, update, reply, report, tz, returned>>

(* The next INSERT INTO order_items of one call *)
insert_order_item ==
    /\ \E c \in Callers :
        /\ calls[c].pc = "items"
        /\ calls[c].next <= Len(calls[c].order.items)
        /\ calls' = [calls EXCEPT
                       ![c].view = InsertItem(@, calls[c].order_id,
                                              calls[c].order.items[calls[c].next]),
                       ![c].next = @ + 1]
    /\ UNCHANGED <<db, conn, pc, local, update, reply, report, tz, returned>>

(* conn.commit() of one call, the close and the return of the order with *)
(* its id                                                                *)
commit_and_return ==
    /\ \E c \in Callers :
        /\ calls[c].pc = "items"
        /\ calls[c].next > Len(calls[c].order.items)
        /\ db' = CommitOf(db, calls[c])
        /\ returned' = Append(returned,
                              [calls[c].order EXCEPT !.id = calls[c].order_id])
        /\ calls' = [calls EXCEPT ![c] = NoCall]
    /\ UNCHANGED <<conn, pc, local, update, reply, report, tz>>

(* An execute or the commit of one call raises: _connect's finally closes *)
(* the connection without a commit                                        *)
close_on_error ==
    /\ \E c \in Callers :
        /\ calls[c].pc = "items"
        /\ db' = CloseWithoutCommit(db, calls[c])
        /\ calls' = [calls EXCEPT ![c] = NoCall]
    /\ UNCHANGED <<conn, pc, local, update, reply, report, tz, returned>>

InitCalls == InitAt({0})

NextCalls ==
    \/ connect(OrdersOf(StoreUpdates, {Noon}))
    \/ insert_order
    \/ database_is_locked
    \/ insert_order_item
    \/ commit_and_return
    \/ close_on_error

SpecCalls == InitCalls /\ [][NextCalls]_vars

----------------------------------------------------------------------------
(* What the claims speak of *)

(* The value of an amount below Base, as an integer *)
IntOf(d) == d.hi * Base + d.lo

PriceOf(id) == IntOf(MENU[CHOOSE i \in 1..Len(MENU) : MENU[i].id = id].price)

RECURSIVE SumTo(_, _)
SumTo(f, n) == IF n = 0 THEN 0 ELSE f[n] + SumTo(f, n - 1)

(* The update is a validated OrderRequest whose item ids are all on the menu *)
Accepted(u) ==
    /\ u.has_data
    /\ u.data.json
    /\ Len(u.data.items) >= 1
    /\ \A i \in 1..Len(u.data.items) :
          u.data.items[i].quantity >= 1 /\ u.data.items[i].id \in MenuIds
    /\ u.data.discount.hi >= 0
    /\ u.data.paid.hi >= 0

(* Sum of unit price times quantity over the requested items *)
GrossOf(u) ==
    SumTo([i \in 1..Len(u.data.items) |->
              PriceOf(u.data.items[i].id) * u.data.items[i].quantity],
          Len(u.data.items))

(* The StoredOrder handle_web_app has built from the update, when it has *)
HasOrder == pc = "items" \/ reply.kind = "receipt"

HandlerOrder == IF pc = "items" THEN local.stored_order ELSE reply.order

HandlerGross == IF pc = "items" THEN local.gross ELSE reply.gross

----------------------------------------------------------------------------
(* C1: for a validated OrderRequest whose ids are all on the menu,        *)
(* build_items returns one StoredOrderItem per requested item, in request *)
(* order, with subtotal = unit_price * quantity, and a gross total that   *)
(* is the exact sum of the subtotals.                                     *)
C1_BuildItems ==
    Accepted(update) =>
        LET reqs == update.data.items
            built == build_items(parse_order_payload(update.data).order)
        IN  /\ built.ok
            /\ Len(built.items) = Len(reqs)
            /\ \A i \in 1..Len(reqs) :
                  /\ built.items[i].menu_id = reqs[i].id
                  /\ built.items[i].quantity = reqs[i].quantity
                  /\ IntOf(built.items[i].unit_price) = PriceOf(reqs[i].id)
                  /\ IntOf(built.items[i].subtotal)
                        = PriceOf(reqs[i].id) * reqs[i].quantity
            /\ IntOf(built.total)
                  = SumTo([i \in 1..Len(reqs) |-> IntOf(built.items[i].subtotal)],
                          Len(reqs))
            /\ HasOrder => /\ HandlerOrder.items = built.items
                           /\ HandlerGross = built.total

(* The spec's scenario: tea_green x 2 and plov x 1 give 38000 *)
C1_Witness ==
    /\ pc = "items"
    /\ update.data.items = Scenario
    /\ local.gross = Dec(38000)
    /\ Len(local.stored_order.items) = 2

(* C2: for an accepted submission the order's discount is                 *)
(* min(requested discount, gross total) and its total is the gross total  *)
(* minus that discount: 0 when the requested discount exceeds the gross   *)
(* total, never negative; and the clamping is no error.                   *)
C2_ClampDiscount ==
    Accepted(update) =>
        LET gross == GrossOf(update)
            asked == IntOf(update.data.discount)
            clamped == IF asked <= gross THEN asked ELSE gross
        IN  /\ reply.kind \notin {"retry", "error"}
            /\ HasOrder =>
                  /\ IntOf(HandlerOrder.discount) = clamped
                  /\ IntOf(HandlerOrder.total) = gross - clamped
                  /\ IntOf(HandlerOrder.total) >= 0
                  /\ asked > gross => HandlerOrder.total = Zero

(* The spec's scenario: discount 50000 on a gross total of 38000 *)
C2_Witness ==
    /\ reply.kind = "receipt"
    /\ update.data.discount = Dec(50000)
    /\ reply.gross = Dec(38000)
    /\ reply.order.discount = Dec(38000)
    /\ reply.order.total = Zero

(* The orders the store holds, as list_orders() returns them *)
Stored == list_orders(db, NoDay)

(* C3: every order in the store has change = max(paid - total, 0) and      *)
(* balance = max(total - paid, 0): exactly one of the two is nonzero when *)
(* paid # total, both are zero when paid = total, neither is negative.    *)
C3_StoredChangeBalance ==
    \A i \in 1..Len(Stored) :
        LET o == Stored[i]
        IN  /\ o.change = DMax(DSub(o.paid, o.total), Zero)
            /\ o.balance = DMax(DSub(o.total, o.paid), Zero)
            /\ o.paid # o.total => ((o.change # Zero) # (o.balance # Zero))
            /\ o.paid = o.total => (o.change = Zero /\ o.balance = Zero)
            /\ DLe(Zero, o.change) /\ DLe(Zero, o.balance)

(* Two orders are equal in every field but the id *)
EqualButId(a, b) == [a EXCEPT !.id = NoId] = [b EXCEPT !.id = NoId]

Listed(o, day) ==
    \E j \in 1..Len(list_orders(db, day)) : EqualButId(list_orders(db, day)[j], o)

(* C4: every order record_order has returned is in list_orders() and in   *)
(* list_orders(its day), equal in every field but the id, items in order. *)
C4_RoundTrip ==
    \A i \in 1..Len(returned) :
        /\ Listed(returned[i], NoDay)
        /\ Listed(returned[i], returned[i].created_at.day)

(* The item rows of one order, in rowid order *)
RowsOf(order_id) == SelectSeq(db.order_items, LAMBDA r : r.order_id = order_id)

(* C5: record_order is all-or-nothing.  The store holds exactly the orders *)
(* record_order has returned, each with all of its item rows, and nothing *)
(* of a call that failed between the INSERT INTO orders and the commit.   *)
C5_AllOrNothing ==
    /\ Len(db.orders) = Len(returned)
    /\ \A i \in 1..Len(returned) :
          /\ db.orders[i].id = returned[i].id
          /\ db.orders[i].chat_id = returned[i].chat_id
          /\ db.orders[i].created_at = IsoFormat(returned[i].created_at)
          /\ Len(RowsOf(returned[i].id)) = Len(returned[i].items)
          /\ \A k \in 1..Len(returned[i].items) :
                RowsOf(returned[i].id)[k].menu_id = returned[i].items[k].menu_id
    /\ \A k \in 1..Len(db.order_items) :
          \E i \in 1..Len(returned) : db.order_items[k].order_id = returned[i].id

(* A call has failed after an earlier order was committed: the handler   *)
(* has returned without a reply to an accepted two-item submission       *)
C5_Witness ==
    /\ pc = "done"
    /\ reply = NoReply
    /\ report = NoReport
    /\ Accepted(update)
    /\ Len(update.data.items) = 2
    /\ Len(db.orders) = 1
    /\ Len(db.order_items) >= 1

(* The update is well-formed JSON that passes every constraint of         *)
(* OrderRequest                                                           *)
Validated(u) ==
    /\ u.has_data
    /\ u.data.json
    /\ Len(u.data.items) >= 1
    /\ \A i \in 1..Len(u.data.items) : u.data.items[i].quantity >= 1
    /\ u.data.discount.hi >= 0
    /\ u.data.paid.hi >= 0

UnknownAt(u) == {i \in 1..Len(u.data.items) : u.data.items[i].id \notin MenuIds}

FirstUnknown(u) ==
    u.data.items[CHOOSE i \in UnknownAt(u) : \A j \in UnknownAt(u) : i <= j].id

(* A step of handle_web_app on an update: the steps that leave idle      *)
(* other than the summary command's                                      *)
Handles == pc = "idle" /\ report' = NoReport

NothingRecorded ==
    /\ db' = db
    /\ returned' = returned
    /\ conn' = Closed
    /\ local' = NoLocal
    /\ pc' = "done"

(* C6: a validated submission with an id that is not on the menu gets the *)
(* error naming that id, record_order is not called and the store is as   *)
(* it was.                                                                *)
C6_UnknownItem ==
    [][(Handles /\ Validated(update') /\ UnknownAt(update') # {})
          => /\ reply'.kind = "error"
             /\ reply'.text = <<"Menu item '", FirstUnknown(update'), "' mavjud emas">>
             /\ NothingRecorded]_vars

(* A known item first, the unknown one second, an order already stored *)
C6_Witness ==
    /\ reply.kind = "error"
    /\ Len(update.data.items) = 2
    /\ update.data.items[1].id = "plov"
    /\ update.data.items[2].id = "qaymoq"
    /\ reply.text[2] = "qaymoq"
    /\ Len(db.orders) = 1
    /\ pc = "done"

(* The update is JSON of the right shape that breaks a constraint *)
BreaksConstraint(u) ==
    /\ u.has_data
    /\ u.data.json
    /\ \/ u.data.items = <<>>
       \/ \E i \in 1..Len(u.data.items) : u.data.items[i].quantity < 1
       \/ u.data.discount.hi < 0
       \/ u.data.paid.hi < 0

(* C7: a submission with no items, a quantity below 1, a negative         *)
(* discount or a negative paid amount gets the generic retry message;     *)
(* neither build_items nor record_order runs and the store is as it was.  *)
C7_Rejected ==
    [][(Handles /\ BreaksConstraint(update'))
          => /\ reply' = [kind |-> "retry"]
             /\ NothingRecorded]_vars

(* The empty submission, rejected with an order already stored *)
C7_Witness ==
    /\ reply.kind = "retry"
    /\ update.has_data
    /\ update.data.json
    /\ update.data.items = <<>>
    /\ update.data.discount = Zero
    /\ update.data.paid = Dec(38000)
    /\ Len(db.orders) = 1
    /\ pc = "done"

Days == 0..(MaxDay + 1)

(* The summary of a list of orders, by counting and adding integers *)
Aggregates(orders) ==
    LET n == Len(orders)
    IN  [total_orders |-> n,
         total_amount |-> SumTo([i \in 1..n |-> IntOf(orders[i].total)], n),
         total_paid |-> SumTo([i \in 1..n |-> IntOf(orders[i].paid)], n),
         total_balance |-> SumTo([i \in 1..n |-> IntOf(orders[i].balance)], n),
         total_change |-> SumTo([i \in 1..n |-> IntOf(orders[i].change)], n)]

IntsOf(sm) ==
    [total_orders |-> sm.total_orders,
     total_amount |-> IntOf(sm.total_amount),
     total_paid |-> IntOf(sm.total_paid),
     total_balance |-> IntOf(sm.total_balance),
     total_change |-> IntOf(sm.total_change)]

(* C8: summarize(day) counts the orders of list_orders(day) and sums      *)
(* their total, paid, balance and change; all five are 0 for an empty day *)
C8_Summarize ==
    /\ \A day \in Days :
          /\ IntsOf(summarize(db, day)) = Aggregates(list_orders(db, day))
          /\ list_orders(db, day) = <<>> =>
                summarize(db, day) =
                    [total_orders |-> 0, total_amount |-> Zero, total_paid |-> Zero,
                     total_balance |-> Zero, total_change |-> Zero]
    /\ report.kind = "report" =>
          IntsOf(report.summary) = Aggregates(list_orders(db, report.day))

(* A report over two orders of one day, one with change and one with a balance *)
C8_Witness ==
    /\ report.kind = "report"
    /\ report.summary.total_orders = 2
    /\ report.summary.total_change # Zero
    /\ report.summary.total_balance # Zero
    /\ report.summary.total_change # report.summary.total_balance

(* a is not later than b *)
DtLe(a, b) ==
    \/ a.day < b.day
    \/ a.day = b.day /\ a.sec < b.sec
    \/ a.day = b.day /\ a.sec = b.sec /\ a.us <= b.us

IdsOf(orders) == {orders[j].id : j \in 1..Len(orders)}

(* orders is sorted by created_at, lists no order twice, and gives each   *)
(* order the items record_order was given for it                          *)
WellListed(orders) ==
    /\ Cardinality(IdsOf(orders)) = Len(orders)
    /\ \A j, k \in 1..Len(orders) :
          j < k => DtLe(orders[j].created_at, orders[k].created_at)
    /\ \A j \in 1..Len(orders) :
          \E i \in 1..Len(returned) :
              /\ returned[i].id = orders[j].id
              /\ returned[i].created_at = orders[j].created_at
              /\ returned[i].items = orders[j].items

(* C9: list_orders(day) is exactly the stored orders created on that day, *)
(* first and last instant included, list_orders() is every stored order;  *)
(* both sorted by created_at, each order with its own items.              *)
C9_ListOrders ==
    /\ \A day \in Days :
          /\ IdsOf(list_orders(db, day))
                = {returned[i].id : i \in {j \in 1..Len(returned) :
                                              returned[j].created_at.day = day}}
          /\ WellListed(list_orders(db, day))
    /\ IdsOf(list_orders(db, NoDay)) = {returned[i].id : i \in 1..Len(returned)}
    /\ WellListed(list_orders(db, NoDay))

(* The last instant of day 1 recorded before its first instant, with      *)
(* different items: list_orders(1) has both, the later-recorded one first *)
C9_Witness ==
    /\ Len(returned) = 2
    /\ returned[1].created_at = [day |-> 1, sec |-> LastSecond, us |-> LastMicro]
    /\ returned[2].created_at = [day |-> 1, sec |-> 0, us |-> 0]
    /\ Len(returned[1].items) = 2
    /\ returned[1].items # returned[2].items
    /\ Len(list_orders(db, 1)) = 2
    /\ list_orders(db, 1)[1].id = 2
    /\ list_orders(db, 0) = <<>>
    /\ tz = 0

(* C10: the summary command counts exactly the stored orders that were    *)
(* created on the calendar day of the command, whatever the offset        *)
(* between the clock that stamps created_at and the clock that picks the  *)
(* day.                                                                   *)
C10_SummaryDay ==
    report.kind = "report" =>
        report.summary.total_orders =
            Cardinality({i \in 1..Len(Stored) :
                            Today(Stored[i].created_at, tz) = report.day})

(* The store holds exactly the orders the calls have returned: each under *)
(* an id of its own, equal in every field, with its own item rows only    *)
C11_StoreOfCalls ==
    /\ Len(Stored) = Len(returned)
    /\ \A i, j \in 1..Len(returned) : i # j => returned[i].id # returned[j].id
    /\ \A i \in 1..Len(returned) :
          /\ \E j \in 1..Len(Stored) : Stored[j] = returned[i]
          /\ Len(RowsOf(returned[i].id)) = Len(returned[i].items)
    /\ \A k \in 1..Len(db.order_items) :
          \E i \in 1..Len(returned) : db.order_items[k].order_id = returned[i].id

(* The step neither updates nor deletes a stored order or item row *)
C11_RowsKept ==
    /\ Len(db'.orders) >= Len(db.orders)
    /\ SubSeq(db'.orders, 1, Len(db.orders)) = db.orders
    /\ Len(db'.order_items) >= Len(db.order_items)
    /\ SubSeq(db'.order_items, 1, Len(db.order_items)) = db.order_items

(* C11: the store tolerates concurrent callers.  Whatever the interleaving *)
(* of record_order calls, every order a call has returned is committed in  *)
(* the store under an id no other returned order has, with exactly its own *)
(* item rows; the store holds one order per returned call and no row of a  *)
(* call that has not returned; and no step updates or deletes a stored     *)
(* order or item row.                                                      *)
C11_ConcurrentCallers == []C11_StoreOfCalls /\ [][C11_RowsKept]_vars

(* One call has returned, a second holds the write lock with its order    *)
(* row and first item row inserted, and another caller waits for the lock *)
C11_Witness ==
    /\ Len(returned) = 1
    /\ Len(db.orders) = 1
    /\ \E c1, c2 \in Callers :
          /\ c1 # c2
          /\ calls[c1].pc = "items"
          /\ calls[c1].order_id = 2
          /\ calls[c1].next = 2
          /\ Len(calls[c1].order.items) = 2
          /\ calls[c2].pc = "connected"
          /\ returned[1].chat_id \notin {c1, c2}

====
